---- MODULE Spec2Model ----
(***************************************************************************)
(* A model of the trash crate: the platform independent front end          *)
(* (src/src/lib.rs) over the Windows Recycle Bin backend                   *)
(* (src/src/windows.rs).                                                   *)
(*                                                                         *)
(* The filesystem is a map from paths to file identities, the Recycle Bin  *)
(* a set of records.  Every backend operation is the sequence of native    *)
(* calls its code issues (its "plan"); a native call fails when the state  *)
(* makes it fail (a name that does not parse) or when the environment      *)
(* makes it fail (the injected failure `f`).                               *)
(***************************************************************************)
EXTENDS Integers, Sequences, FiniteSets, TLC

\* ---------------------------------------------------------------- bounds
MaxCreates == 1        \* files another actor creates during a run
MaxRemoves == 2        \* records ever put into the Recycle Bin
MaxThreads == 2        \* threads of the process
MaxTrashed == 1        \* records put into the Recycle Bin while all threads are followed

\* ---------------------------------------------------------------- values
Dirs == {"p"}
Names == {"a", "b"}
VERBATIM == "\\\\?\\"

\* A path is the sequence of its components; a parent directory is <<dir>>.
ParentPaths == {<<d>> : d \in Dirs}
Paths == {<<d, n>> : d \in Dirs, n \in Names}

\* PathBuf::join(parent, name)
Join(parent, name) == Append(parent, name)

Range(s) == {s[i] : i \in 1..Len(s)}

\* All sequences over S, without repetition, of length 0..n.
InjSeqs(S, n) ==
    UNION {{s \in [1..k -> S] : \A i, j \in 1..k : s[i] = s[j] => i = j} : k \in 0..n}

VARIABLES
    fs,        \* the filesystem: path -> identity of the entry there, 0 for none
    store,     \* the Recycle Bin: a set of records
    nextFile,  \* number of files created by the other actor so far
    nextId,    \* number of records ever created in the Recycle Bin
    held,      \* the TrashItems the caller holds (the result of its last list())
    pc,        \* "idle", or "perform": restore_all is between its check and its native part
    batch,     \* the items of the restore_all call in progress
    before,    \* the filesystem and the store without the effects of the current call
    last,      \* the call that has just returned, NoCall between two calls
    com,       \* thread -> the state of its COM binding (CO_INITIALIZER)
    cur        \* the thread whose restore_all is in progress, 0 for none

vars == <<fs, store, nextFile, nextId, held, pc, batch, before, last, com, cur>>

\* ------------------------------------------------------------ TrashItem
\* TrashItem::original_path
original_path(item) == Join(item.original_parent, item.name)

\* An equality as #[derive(PartialEq)] would make it: field by field.
eq_derived(self, other) == self = other

\* impl PartialEq for TrashItem: self.id == other.id
eq(self, other) == self.id = other.id

\* impl Hash for TrashItem: self.id.hash(state).  The state of a hasher is
\* the sequence of the values written to it.
hash(self, state) == Append(state, self.id)

\* The position of a path among Paths: the identity of the file that is there
\* when the run starts.
PathNo(p) == IF p[2] = "a" THEN 1 ELSE 2

\* Identity of the n-th file the other actor creates.
NewFile(n) == Cardinality(Paths) + n

Ids(recs) == {r.id : r \in recs}
RecOf(recs, id) == CHOOSE r \in recs : r.id = id

\* ------------------------------------------------------- native calls
\* One native call of a plan: its name, and whether the state lets it succeed.
Call(fn, ok) == [fn |-> fn, ok |-> ok]

RECURSIVE Flatten(_)
Flatten(ss) == IF ss = <<>> THEN <<>> ELSE Head(ss) \o Flatten(Tail(ss))

\* The first call of the plan that does not succeed, 0 when all succeed:
\* call number f is the one the environment makes fail (f = 0: none).
FirstStop(plan, f) ==
    LET bad == {i \in 1..Len(plan) : ~plan[i].ok \/ i = f}
    IN  IF bad = {} THEN 0 ELSE CHOOSE i \in bad : \A j \in bad : i <= j

\* return_err_on_fail!: a call whose HRESULT is not SUCCEEDED ends the
\* function with PlatformApi{function_name, code}.
return_err_on_fail(fn, hr) ==
    [kind |-> "PlatformApi", fn |-> fn, code |-> hr, path |-> <<>>, items |-> <<>>,
     src |-> "none"]

Ok(items) ==
    [kind |-> "Ok", fn |-> "", code |-> "S_OK", path |-> <<>>, items |-> items,
     src |-> "none"]

\* bind_to_csidl(CSIDL_BITBUCKET): the Recycle Bin's id list is not empty, so
\* the folder is bound with BindToObject.
bind_to_csidl ==
    <<Call("SHGetSpecialFolderLocation", TRUE), Call("SHGetDesktopFolder", TRUE),
      Call("BindToObject", TRUE)>>

\* The file-operation coordinator every mutating operation creates.
FileOperation == <<Call("CoCreateInstance", TRUE), Call("SetOperationFlags", TRUE)>>

\* SHCreateItemFromParsingName: the shell parses the name of an existing
\* entry; it does not parse the verbatim form.
Parses(fsv, wide_path) == wide_path \in Paths /\ fsv[wide_path] # 0

\* IShellFolder::ParseDisplayName on the Recycle Bin: the id of a record
\* that is in the store.
Resolves(recs, id) == id \in Ids(recs)

\* The number of registered sub-operations PerformOperations has carried
\* out when the operation returns: all n when every call succeeded, any k < n
\* when PerformOperations itself failed, none when an earlier call failed or
\* PerformOperations is not part of the plan.
EndsInPerform(plan) == Len(plan) > 0 /\ plan[Len(plan)].fn = "PerformOperations"

Applied(plan, stop, n, k) ==
    IF ~EndsInPerform(plan) THEN 0
    ELSE IF stop = 0 THEN n
    ELSE IF stop = Len(plan) THEN k
    ELSE 0

\* The numbers of sub-operations a PerformOperations that fails may have
\* carried out; {0} for a plan that does not stop at PerformOperations.
PartialAt(plan, f, n) ==
    IF n > 0 /\ EndsInPerform(plan) /\ FirstStop(plan, f) = Len(plan)
    THEN 0..(n - 1) ELSE {0}

\* What an operation leaves behind: its result, the native calls it issued,
\* and the filesystem and the store after it.
Outcome(res, calls, fsv, recs, nid) ==
    [res |-> res, calls |-> calls, fs |-> fsv, store |-> recs, nextId |-> nid]

\* The result of a plan that ran up to call `stop` (0: to its end).
PlanResult(plan, stop) ==
    IF stop = 0 THEN Ok(<<>>) ELSE return_err_on_fail(plan[stop].fn, "E_FAIL")

\* A native call that was issued: its name and the status it returned.
Issued(fn, hr) == [fn |-> fn, hr |-> hr]

\* VariantTimeToSystemTime returns an INT and SystemTimeToFileTime a BOOL,
\* nonzero for success and 0 for failure; every other call an HRESULT.
BoolCalls == {"VariantTimeToSystemTime", "SystemTimeToFileTime"}

Returns(fn, ok) ==
    IF fn \in BoolCalls THEN (IF ok THEN "TRUE" ELSE "FALSE")
    ELSE IF ok THEN "S_OK" ELSE "E_FAIL"

\* The call did not do what it was called for.
Failed(call) == call.hr \in {"E_FAIL", "FALSE"}

\* SUCCEEDED(hr): hr >= 0.  As an HRESULT, FALSE (0) is S_OK.
SUCCEEDED(hr) == hr # "E_FAIL"

\* The native calls issued, in order, each with the status it returned.
PlanCalls(plan, stop) ==
    [i \in 1..(IF stop = 0 THEN Len(plan) ELSE stop) |->
        Issued(plan[i].fn, Returns(plan[i].fn, i # stop))]

\* What a native call that returns S_OK hands to the code, which has to
\* release it; "" for a call that hands out nothing.
Handle(fn) ==
    CASE fn = "SHGetSpecialFolderLocation" -> "PIDLIST_ABSOLUTE"
      [] fn = "SHGetDesktopFolder" -> "IShellFolder"
      [] fn = "BindToObject" -> "IShellFolder2"
      [] fn = "CoCreateInstance" -> "IFileOperation"
      [] fn = "SHCreateItemFromParsingName" -> "IShellItem"
      [] fn = "SHCreateItemWithParent" -> "IShellItem"
      [] fn = "ParseDisplayName" -> "PIDLIST_RELATIVE"
      [] fn = "EnumObjects" -> "IEnumIDList"
      [] fn = "Next" -> "PITEMID_CHILD"
      [] fn = "StrRetToStrW" -> "PWSTR"
      [] fn = "GetDetailsEx" -> "VARIANT"
      [] OTHER -> ""

\* The handles the code releases on every way out of the scope that got
\* them: with defer!, with a scopeguard, or straight after their only use.
\* There is no Release of the IEnumIDList.
Releases ==
    {"PIDLIST_ABSOLUTE", "IShellFolder", "IShellFolder2", "IFileOperation", "IShellItem",
     "PIDLIST_RELATIVE", "PITEMID_CHILD", "PWSTR", "VARIANT"}

\* The calls whose handle is still held when the operation has returned.
HeldAtReturn(calls) ==
    {i \in 1..Len(calls) :
        /\ calls[i].hr = "S_OK"
        /\ Handle(calls[i].fn) # ""
        /\ Handle(calls[i].fn) \notin Releases}

\* ------------------------------------------------------------- remove
\* The "\\?\" prefix of a canonical path is cut off before the path is
\* handed to the shell.
StripPrefix(full_path) ==
    IF Len(full_path) > 0 /\ Head(full_path) = VERBATIM THEN Tail(full_path)
    ELSE full_path

\* The records the shell creates for the first k paths it recycles: the
\* name and the original location of the entry, the time, a new id.
Recycled(fsv, nid, paths, k) ==
    {[id |-> nid + i, name |-> paths[i][Len(paths[i])],
      location |-> SubSeq(paths[i], 1, Len(paths[i]) - 1),
      deleted |-> nid + i, content |-> fsv[paths[i]]] : i \in 1..k}

\* A delete_all_canonicalized that performs inside its loop, after each
\* DeleteItem.
DeletePlanEach(fsv, full_paths) ==
    bind_to_csidl \o FileOperation
    \o Flatten([i \in 1..Len(full_paths) |->
            <<Call("SHCreateItemFromParsingName", Parses(fsv, StripPrefix(full_paths[i]))),
              Call("DeleteItem", TRUE), Call("PerformOperations", TRUE)>>])

\* The native calls of delete_all_canonicalized.  PerformOperations is
\* issued whether or not a path was registered; with nothing registered it
\* fails.
DeletePlan(fsv, full_paths) ==
    bind_to_csidl \o FileOperation
    \o Flatten([i \in 1..Len(full_paths) |->
            <<Call("SHCreateItemFromParsingName", Parses(fsv, StripPrefix(full_paths[i]))),
              Call("DeleteItem", TRUE)>>])
    \o <<Call("PerformOperations", Len(full_paths) > 0)>>

delete_all_canonicalized(fsv, recs, nid, full_paths, f, k) ==
    LET plan == DeletePlan(fsv, full_paths)
        stop == FirstStop(plan, f)
        n == Len(full_paths)
        done == Applied(plan, stop, n, k)
        paths == [i \in 1..n |-> StripPrefix(full_paths[i])]
        gone == {paths[i] : i \in 1..done}
    IN  Outcome(PlanResult(plan, stop), PlanCalls(plan, stop),
                [p \in Paths |-> IF p \in gone THEN 0 ELSE fsv[p]],
                recs \cup Recycled(fsv, nid, paths, done), nid + done)

\* A canonicalize that does not look at the filesystem.
canonicalize_lexical(fsv, path) == [ok |-> TRUE, path |-> <<VERBATIM>> \o path]

\* Path::canonicalize: the verbatim absolute form of the path of an existing
\* entry, an io::Error of kind NotFound for a path with no entry.
canonicalize(fsv, path) ==
    IF path \in Paths /\ fsv[path] # 0
    THEN [ok |-> TRUE, path |-> <<VERBATIM>> \o path]
    ELSE [ok |-> FALSE, path |-> path]

\* platform::remove_all: canonicalize every path, then recycle them all.
remove_all(fsv, recs, nid, paths, f, k) ==
    LET bad == {i \in 1..Len(paths) : ~canonicalize(fsv, paths[i]).ok}
    IN  IF bad # {}
        THEN Outcome([kind |-> "CanonicalizePath", fn |-> "", code |-> "",
                      path |-> paths[CHOOSE i \in bad : \A j \in bad : i <= j],
                      items |-> <<>>, src |-> "NotFound"],
                     <<>>, fsv, recs, nid)
        ELSE delete_all_canonicalized(fsv, recs, nid,
                 [i \in 1..Len(paths) |-> canonicalize(fsv, paths[i]).path], f, k)

\* platform::remove
remove(fsv, recs, nid, path, f, k) == remove_all(fsv, recs, nid, <<path>>, f, k)

\* --------------------------------------------------------------- list
\* The Recycle Bin enumerates its records in the order they were created.
RECURSIVE Enumeration(_)
Enumeration(recs) ==
    IF recs = {} THEN <<>>
    ELSE LET r == CHOOSE x \in recs : \A y \in recs : x.id <= y.id
         IN  <<r>> \o Enumeration(recs \ {r})

\* get_date_unix: the deletion time of the record as Unix seconds.
get_date_unix(rec) == rec.deleted

\* A list() that takes the name from the original location of the record.
TrashItemOfLocationName(rec) ==
    [id |-> rec.id, name |-> rec.location[Len(rec.location)], original_parent |-> rec.location,
     time_deleted |-> get_date_unix(rec)]

\* A list() that makes the id of an item from the original path of the
\* record.
TrashItemOfPathId(rec) ==
    [id |-> PathNo(Join(rec.location, rec.name)), name |-> rec.name,
     original_parent |-> rec.location, time_deleted |-> get_date_unix(rec)]

\* The TrashItem list() builds from one enumerated record.
TrashItemOf(rec) ==
    [id |-> rec.id, name |-> rec.name, original_parent |-> rec.location,
     time_deleted |-> get_date_unix(rec)]

\* The native calls of one turn of the loop of list().
ListItemCalls ==
    <<Call("Next", TRUE),
      Call("GetDisplayNameOf", TRUE), Call("StrRetToStrW", TRUE),
      Call("GetDisplayNameOf", TRUE), Call("StrRetToStrW", TRUE),
      Call("GetDetailsEx", TRUE), Call("VariantChangeType", TRUE),
      Call("GetDetailsEx", TRUE), Call("VariantChangeType", TRUE),
      Call("VariantTimeToSystemTime", TRUE), Call("SystemTimeToFileTime", TRUE)>>

ListHead == bind_to_csidl \o <<Call("EnumObjects", TRUE)>>

\* The last Next returns S_FALSE: there is no further record.
ListPlan(recs) ==
    ListHead \o Flatten([i \in 1..Cardinality(recs) |-> ListItemCalls])
    \o <<Call("Next", TRUE)>>

\* Records pushed to item_vec before call number `stop` of the plan.
PushedBefore(stop) == (stop - Len(ListHead) - 1) \div Len(ListItemCalls)

\* The item list() builds from a record when VariantTimeToSystemTime did not
\* write the SYSTEMTIME and SystemTimeToFileTime accepted what was there:
\* its time is whatever the memory held, not the record's.
TrashItemOfUninit(rec) == [TrashItemOf(rec) EXCEPT !.time_deleted = 0]

\* return_err_on_fail! { VariantTimeToSystemTime(..) }: the status of a
\* failure passes the test of the macro.
Unnoticed(plan, stop) ==
    /\ stop # 0
    /\ plan[stop].fn = "VariantTimeToSystemTime"
    /\ SUCCEEDED(Returns(plan[stop].fn, FALSE))

\* A list() that goes on after EnumObjects whenever the macro lets the
\* status pass.
EnumObjectsSucceeded(hr) == SUCCEEDED(hr)

\* `if hr != S_OK { return Err(..) }` after EnumObjects: list() goes on to
\* read the enumerator only when the status is S_OK.
EnumObjectsOk(hr) == hr = "S_OK"

\* Call number `stop` is an EnumObjects whose status lets list() go on.
GoesOn(plan, stop, hr) ==
    stop # 0 /\ plan[stop].fn = "EnumObjects" /\ EnumObjectsOk(hr)

\* What list() returns when call number `stop` of its plan is the first that
\* does not succeed (0: none).  The loop runs while Next returns S_OK, so a
\* Next that fails ends the loop like the end of the enumeration.  After an
\* unnoticed failure of VariantTimeToSystemTime the SYSTEMTIME `st` is not
\* initialized: SystemTimeToFileTime rejects it ("invalid") or converts it
\* ("valid").  Any other call that fails ends list() with PlatformApi.
ListResult(plan, stop, enum, hr, st) ==
    LET turn == IF stop = 0 THEN 0 ELSE PushedBefore(stop) + 1
        items == [i \in 1..Len(enum) |->
                    IF Unnoticed(plan, stop) /\ i = turn THEN TrashItemOfUninit(enum[i])
                    ELSE TrashItemOf(enum[i])]
    IN  IF stop = 0 \/ GoesOn(plan, stop, hr) THEN Ok(items)
        ELSE IF plan[stop].fn = "Next" THEN Ok(SubSeq(items, 1, PushedBefore(stop)))
        ELSE IF Unnoticed(plan, stop)
        THEN IF st = "invalid" THEN return_err_on_fail(plan[stop + 1].fn, hr) ELSE Ok(items)
        ELSE return_err_on_fail(plan[stop].fn, hr)

\* The native calls list() issued, each with the status it returned.  The
\* Next that ends the enumeration returns S_FALSE.
ListCalls(plan, stop, hr, st) ==
    LET n == IF stop = 0 \/ GoesOn(plan, stop, hr) THEN Len(plan)
             ELSE IF ~Unnoticed(plan, stop) THEN stop
             ELSE IF st = "invalid" THEN stop + 1 ELSE Len(plan)
    IN  [i \in 1..n |->
            Issued(plan[i].fn,
                   IF i = stop
                   THEN (IF plan[i].fn \in BoolCalls THEN Returns(plan[i].fn, FALSE) ELSE hr)
                   ELSE IF stop # 0 /\ st = "invalid" /\ i = stop + 1
                   THEN Returns(plan[i].fn, FALSE)
                   ELSE IF i = Len(plan) THEN "S_FALSE"
                   ELSE Returns(plan[i].fn, TRUE))]

\* A list() that takes the records it enumerates out of the store.
list_draining(fsv, recs, nid, f, hr, st) ==
    LET plan == ListPlan(recs)
        stop == FirstStop(plan, f)
        enum == Enumeration(recs)
        seen == IF stop = 0 THEN Len(enum) ELSE IF stop <= Len(ListHead) THEN 0
                ELSE PushedBefore(stop)
    IN  Outcome(ListResult(plan, stop, enum, hr, st), ListCalls(plan, stop, hr, st), fsv,
                {enum[i] : i \in (seen + 1)..Len(enum)}, nid)

\* list(): the environment makes call number f fail with status hr (f = 0:
\* none); EnumObjects must return exactly S_OK, so hr may be S_FALSE there.
list(fsv, recs, nid, f, hr, st) ==
    LET plan == ListPlan(recs)
        stop == FirstStop(plan, f)
    IN  Outcome(ListResult(plan, stop, Enumeration(recs), hr, st),
                ListCalls(plan, stop, hr, st), fsv, recs, nid)

\* What list() returns when every native call succeeds.
Listing(recs) == list([p \in Paths |-> 0], recs, 0, 0, "E_FAIL", "valid").res.items

\* -------------------------------------------------------------- purge
\* A purge_all whose at_least_one is never set.
PurgePlanNoPerform(recs, items) ==
    bind_to_csidl \o FileOperation
    \o Flatten([i \in 1..Len(items) |->
            <<Call("ParseDisplayName", Resolves(recs, items[i].id)),
              Call("SHCreateItemWithParent", TRUE), Call("DeleteItem", TRUE)>>])

\* A purge_all without at_least_one: PerformOperations is issued for any
\* batch, and fails when nothing was registered.
PurgePlanAlwaysPerform(recs, items) ==
    bind_to_csidl \o FileOperation
    \o Flatten([i \in 1..Len(items) |->
            <<Call("ParseDisplayName", Resolves(recs, items[i].id)),
              Call("SHCreateItemWithParent", TRUE), Call("DeleteItem", TRUE)>>])
    \o <<Call("PerformOperations", Len(items) > 0)>>

\* The native calls of purge_all: PerformOperations only if at_least_one.
PurgePlan(recs, items) ==
    bind_to_csidl \o FileOperation
    \o Flatten([i \in 1..Len(items) |->
            <<Call("ParseDisplayName", Resolves(recs, items[i].id)),
              Call("SHCreateItemWithParent", TRUE), Call("DeleteItem", TRUE)>>])
    \o (IF Len(items) > 0 THEN <<Call("PerformOperations", TRUE)>> ELSE <<>>)

\* A purge_all that leaves out the items whose id does not resolve.
purge_all_skipping(fsv, recs, nid, items, f, k) ==
    LET live == SelectSeq(items, LAMBDA it : Resolves(recs, it.id))
        plan == PurgePlan(recs, live)
        stop == FirstStop(plan, f)
        done == Applied(plan, stop, Len(live), IF k < Len(live) THEN k ELSE 0)
        purged == {live[i].id : i \in 1..done}
    IN  Outcome(PlanResult(plan, stop), PlanCalls(plan, stop), fsv,
                {r \in recs : r.id \notin purged}, nid)

purge_all(fsv, recs, nid, items, f, k) ==
    LET plan == PurgePlan(recs, items)
        stop == FirstStop(plan, f)
        done == Applied(plan, stop, Len(items), k)
        purged == {items[i].id : i \in 1..done}
    IN  Outcome(PlanResult(plan, stop), PlanCalls(plan, stop), fsv,
                {r \in recs : r.id \notin purged}, nid)

\* ------------------------------------------------------------ restore
\* Path::exists
exists(fsv, path) == path \in Paths /\ fsv[path] # 0

\* A twin check that compares the items (by id) instead of their paths.
TwinIndexById(items) ==
    LET dup == {i \in 1..Len(items) : \E j \in 1..(i - 1) : items[j].id = items[i].id}
    IN  IF dup = {} THEN 0 ELSE CHOOSE i \in dup : \A j \in dup : i <= j

\* The twin check of restore_all (lib.rs): the first item whose
\* original_path() is already in item_set, 0 when there is none.
TwinIndex(items) ==
    LET dup == {i \in 1..Len(items) :
                   \E j \in 1..(i - 1) : original_path(items[j]) = original_path(items[i])}
    IN  IF dup = {} THEN 0 ELSE CHOOSE i \in dup : \A j \in dup : i <= j

TwinsError(items, i) ==
    [kind |-> "RestoreTwins", fn |-> "", code |-> "", path |-> original_path(items[i]),
     items |-> items, src |-> "none"]

\* An existence check that looks at the first item only.
CollisionIndexFirst(fsv, items) ==
    IF Len(items) > 0 /\ exists(fsv, original_path(items[1])) THEN 1 ELSE 0

\* The existence check of the backend's restore_all: the first item whose
\* original_path() exists, 0 when there is none.
CollisionIndex(fsv, items) ==
    LET hit == {i \in 1..Len(items) : exists(fsv, original_path(items[i]))}
    IN  IF hit = {} THEN 0 ELSE CHOOSE i \in hit : \A j \in hit : i <= j

\* A RestoreCollision that names the path of the first item of the batch.
CollisionErrorHead(items, i) ==
    [kind |-> "RestoreCollision", fn |-> "", code |-> "", path |-> original_path(items[1]),
     items |-> items, src |-> "none"]

\* A RestoreCollision whose remaining_items start at the colliding item.
CollisionErrorRest(items, i) ==
    [kind |-> "RestoreCollision", fn |-> "", code |-> "", path |-> original_path(items[i]),
     items |-> SubSeq(items, i, Len(items)), src |-> "none"]

\* RestoreCollision { path, remaining_items: items.into() }
CollisionError(items, i) ==
    [kind |-> "RestoreCollision", fn |-> "", code |-> "", path |-> original_path(items[i]),
     items |-> items, src |-> "none"]

\* What restore_all returns before it reaches its native part, NoError when
\* it goes on: the twin check over the batch, then the existence check.
NoError == Ok(<<>>)

\* Checks in the other order: the existence check, then the twin check.
restore_check_exists_first(fsv, items) ==
    IF CollisionIndex(fsv, items) # 0
    THEN CollisionError(items, CollisionIndex(fsv, items))
    ELSE IF TwinIndex(items) # 0 THEN TwinsError(items, TwinIndex(items))
    ELSE NoError

restore_check(fsv, items) ==
    IF TwinIndex(items) # 0 THEN TwinsError(items, TwinIndex(items))
    ELSE IF CollisionIndex(fsv, items) # 0
    THEN CollisionError(items, CollisionIndex(fsv, items))
    ELSE NoError

\* The native calls of the backend's restore_all.
RestorePlan(recs, items) ==
    bind_to_csidl \o FileOperation
    \o Flatten([i \in 1..Len(items) |->
            <<Call("ParseDisplayName", Resolves(recs, items[i].id)),
              Call("SHCreateItemWithParent", TRUE),
              Call("SHCreateItemFromParsingName", items[i].original_parent \in ParentPaths),
              Call("MoveItem", TRUE)>>])
    \o (IF Len(items) > 0 THEN <<Call("PerformOperations", TRUE)>> ELSE <<>>)

\* A move out of the Recycle Bin that puts nothing at the destination.
MovedNowhere(fsv, recs, items, done) == fsv

\* MoveItem(trash item, original parent, name) carried out for the first
\* `done` items: with FOF_NO_UI the shell answers its own "replace?" prompt
\* with yes, so the record's content takes the place of whatever is there.
Moved(fsv, recs, items, done) ==
    [p \in Paths |->
        IF \E i \in 1..done : original_path(items[i]) = p
        THEN RecOf(recs, items[CHOOSE i \in 1..done : original_path(items[i]) = p].id).content
        ELSE fsv[p]]

restore_native(fsv, recs, nid, items, f, k) ==
    LET plan == RestorePlan(recs, items)
        stop == FirstStop(plan, f)
        done == Applied(plan, stop, Len(items), k)
        restored == {items[i].id : i \in 1..done}
    IN  Outcome(PlanResult(plan, stop), PlanCalls(plan, stop),
                Moved(fsv, recs, items, done),
                {r \in recs : r.id \notin restored}, nid)

\* A restore_all that finds the twins only when it comes to them: the items
\* before the second twin are restored by then.
restore_front_lazy(fsv, recs, nid, items) ==
    LET t == TwinIndex(items)
        part == restore_native(fsv, recs, nid, SubSeq(items, 1, t - 1), 0, 0)
    IN  IF t = 0 THEN Outcome(restore_check(fsv, items), <<>>, fsv, recs, nid)
        ELSE Outcome(TwinsError(items, t), part.calls, part.fs, part.store, nid)

\* A restore_all that looks at a destination only when it comes to the item:
\* the items before the colliding one are restored by then.
restore_front_moving(fsv, recs, nid, items) ==
    LET c == CollisionIndex(fsv, items)
        part == restore_native(fsv, recs, nid, SubSeq(items, 1, c - 1), 0, 0)
    IN  IF TwinIndex(items) # 0 \/ c = 0
        THEN Outcome(restore_check(fsv, items), <<>>, fsv, recs, nid)
        ELSE Outcome(CollisionError(items, c), part.calls, part.fs, part.store, nid)

\* restore_all up to the end of its checks: nothing has been called and
\* nothing has changed when it returns an error from there or goes on.
restore_front(fsv, recs, nid, items) ==
    Outcome(restore_check(fsv, items), <<>>, fsv, recs, nid)

\* -------------------------------------------------------- COM binding
\* The threads of the process.
Threads == 1..MaxThreads

\* CO_INITIALIZER of a thread that has not called the crate: not constructed.
\* inits and uninits count the CoInitializeEx calls that succeeded and the
\* CoUninitialize calls on the thread; used tells whether the thread has
\* issued native calls, and whether it had its own binding when it did.
NewThread == [state |-> "new", inits |-> 0, uninits |-> 0, used |-> "none"]

\* A process-wide initializer: the thread that comes first constructs it,
\* the others find it constructed.
ensure_com_initialized_shared(c, t, ok) ==
    IF \E u \in Threads : c[u].state = "init"
    THEN [com |-> c, panic |-> FALSE, calls |-> <<>>]
    ELSE IF ok
    THEN [com |-> [c EXCEPT ![t].state = "init", ![t].inits = @ + 1], panic |-> FALSE,
          calls |-> <<Issued("CoInitializeEx", "S_OK")>>]
    ELSE [com |-> c, panic |-> TRUE, calls |-> <<Issued("CoInitializeEx", "E_FAIL")>>]

\* ensure_com_initialized on thread t: CO_INITIALIZER.with constructs the
\* thread's CoInitializer on its first use.  CoInitializer::new calls
\* CoInitializeEx and panics when it does not succeed (ok = FALSE); nothing
\* is constructed then.
ensure_com_initialized(c, t, ok) ==
    IF c[t].state = "init"
    THEN [com |-> c, panic |-> FALSE, calls |-> <<>>]
    ELSE IF ok
    THEN [com |-> [c EXCEPT ![t].state = "init", ![t].inits = @ + 1], panic |-> FALSE,
          calls |-> <<Issued("CoInitializeEx", "S_OK")>>]
    ELSE [com |-> c, panic |-> TRUE, calls |-> <<Issued("CoInitializeEx", "E_FAIL")>>]

\* impl Drop for CoInitializer, run for the thread-local of an exiting
\* thread if it was constructed: CoUninitialize.
Drop(c, t) ==
    IF c[t].state = "init"
    THEN [c EXCEPT ![t].state = "exited", ![t].uninits = @ + 1]
    ELSE [c EXCEPT ![t].state = "exited"]

\* Thread t has issued the native calls `calls`.
Used(c, t, calls) ==
    IF calls = <<>> THEN c
    ELSE [c EXCEPT ![t].used = IF c[t].state = "init" /\ @ # "naked" THEN "bound"
                                ELSE "naked"]

\* The operation was aborted by the panic of CoInitializer::new.
Panic ==
    [kind |-> "Panic", fn |-> "CoInitializeEx", code |-> "E_FAIL", path |-> <<>>,
     items |-> <<>>, src |-> "none"]

\* The native part of an operation on thread t, which starts with
\* ensure_com_initialized(): `out` is what the rest of it leaves behind.
Native(c, t, ok, fsv, recs, nid, out) ==
    LET e == ensure_com_initialized(c, t, ok)
    IN  IF e.panic
        THEN [out |-> Outcome(Panic, e.calls, fsv, recs, nid), com |-> e.com]
        ELSE [out |-> [out EXCEPT !.calls = e.calls \o @],
              com |-> Used(e.com, t, out.calls)]

\* ------------------------------------------------------------ actions
\* before.fs and before.store are the filesystem and the store as they
\* would be without the call: as they were when it was entered, plus the
\* entries (before.ext) the other actor has created since.
Snapshot(fsv, recs) == [fs |-> fsv, store |-> recs, ext |-> {}]

Returned(op, arg, res, calls) ==
    [op |-> op, arg |-> arg, kind |-> res.kind, fn |-> res.fn, code |-> res.code,
     path |-> res.path, items |-> res.items, src |-> res.src, calls |-> calls]

NoCall == Returned("none", <<>>, NoError, <<>>)

Init ==
    /\ fs = [p \in Paths |-> PathNo(p)]
    /\ store = {}
    /\ nextFile = 0
    /\ nextId = 0
    /\ held = {}
    /\ pc = "idle"
    /\ batch = <<>>
    /\ before = Snapshot([p \in Paths |-> PathNo(p)], {})
    /\ last = NoCall
    /\ com = [t \in Threads |-> NewThread]
    /\ cur = 0

\* Another thread or process creates an entry at a free path.
CreateFile(p) ==
    /\ last = NoCall
    /\ nextFile < MaxCreates
    /\ fs[p] = 0
    /\ fs' = [fs EXCEPT ![p] = NewFile(nextFile + 1)]
    /\ nextFile' = nextFile + 1
    /\ before' = IF pc = "idle" THEN Snapshot(fs', store)
                 ELSE [before EXCEPT !.fs[p] = NewFile(nextFile + 1), !.ext = @ \cup {p}]
    /\ UNCHANGED <<store, nextId, held, pc, batch, last, com, cur>>

\* The caller is between two calls.
Idle == pc = "idle" /\ last = NoCall

\* The outcomes of CoInitializeEx that matter to thread t.
InitOutcomes(t) == IF com[t].state = "init" THEN {TRUE} ELSE BOOLEAN

Finish(op, arg, out) ==
    /\ fs' = out.fs
    /\ store' = out.store
    /\ nextId' = out.nextId
    /\ last' = Returned(op, arg, out.res, out.calls)

\* remove on thread t; a path that cannot be canonicalized ends it before
\* the backend is entered.
Remove(t, path, max) ==
    /\ Idle
    /\ com[t].state # "exited"
    /\ nextId < max
    /\ \E f \in 0..Len(DeletePlan(fs, <<path>>)), ok \in InitOutcomes(t) :
       \E k \in PartialAt(DeletePlan(fs, <<path>>), f, 1) :
          LET out == remove(fs, store, nextId, path, f, k)
              r == IF out.res.kind = "CanonicalizePath" THEN [out |-> out, com |-> com]
                   ELSE Native(com, t, ok, fs, store, nextId, out)
          IN  Finish("remove", <<path>>, r.out) /\ com' = r.com
    /\ before' = Snapshot(fs, store)
    /\ UNCHANGED <<nextFile, held, pc, batch, cur>>

\* remove_all of one path is what remove does (Remove above).
RemoveAll(t, paths) ==
    /\ Idle
    /\ com[t].state # "exited"
    /\ Len(paths) # 1
    /\ \E f \in 0..Len(DeletePlan(fs, paths)), ok \in InitOutcomes(t) :
       \E k \in PartialAt(DeletePlan(fs, paths), f, Len(paths)) :
          LET out == remove_all(fs, store, nextId, paths, f, k)
              r == IF out.res.kind = "CanonicalizePath" THEN [out |-> out, com |-> com]
                   ELSE Native(com, t, ok, fs, store, nextId, out)
          IN  Finish("remove_all", paths, r.out) /\ com' = r.com
    /\ before' = Snapshot(fs, store)
    /\ UNCHANGED <<nextFile, held, pc, batch, cur>>

\* list() on thread t.  The caller keeps the items of a list() that ran to
\* its end; the items of a list() that was cut short, or whose time is not
\* the record's, are among them up to time_deleted, which no operation reads.
List(t) ==
    /\ Idle
    /\ com[t].state # "exited"
    /\ \E f \in 0..Len(ListPlan(store)), hr \in {"E_FAIL", "S_FALSE"},
          st \in {"valid", "invalid"}, ok \in InitOutcomes(t) :
          /\ hr = "S_FALSE" => f = Len(ListHead)
          /\ LET r == Native(com, t, ok, fs, store, nextId,
                             list(fs, store, nextId, f, hr, st))
             IN  /\ Finish("list", <<>>, r.out)
                 /\ com' = r.com
                 /\ held' = IF r.out.res.kind = "Ok" /\ r.out.res.items = Listing(store)
                            THEN Range(r.out.res.items) ELSE held
    /\ before' = Snapshot(fs, store)
    /\ UNCHANGED <<nextFile, pc, batch, cur>>

PurgeAll(t, items) ==
    /\ Idle
    /\ com[t].state # "exited"
    /\ \E f \in 0..Len(PurgePlan(store, items)), ok \in InitOutcomes(t) :
       \E k \in PartialAt(PurgePlan(store, items), f, Len(items)) :
          LET r == Native(com, t, ok, fs, store, nextId,
                          purge_all(fs, store, nextId, items, f, k))
          IN  Finish("purge_all", items, r.out) /\ com' = r.com
    /\ before' = Snapshot(fs, store)
    /\ UNCHANGED <<nextFile, held, pc, batch, cur>>

\* restore_all on thread t up to the end of its existence check: it returns
\* RestoreTwins or RestoreCollision, or goes on to its native part.
RestoreAll(t, items) ==
    /\ Idle
    /\ com[t].state # "exited"
    /\ before' = Snapshot(fs, store)
    /\ LET out == restore_front(fs, store, nextId, items)
       IN  IF out.res = NoError
           THEN /\ pc' = "perform"
                /\ batch' = items
                /\ cur' = t
                /\ UNCHANGED <<fs, store, nextId, last>>
           ELSE /\ Finish("restore_all", items, out)
                /\ UNCHANGED <<pc, batch, cur>>
    /\ UNCHANGED <<nextFile, held, com>>

\* The native part of restore_all, from ensure_com_initialized to its return.
RestorePerform ==
    /\ pc = "perform"
    /\ \E f \in 0..Len(RestorePlan(store, batch)), ok \in InitOutcomes(cur) :
       \E k \in PartialAt(RestorePlan(store, batch), f, Len(batch)) :
          LET r == Native(com, cur, ok, fs, store, nextId,
                          restore_native(fs, store, nextId, batch, f, k))
          IN  Finish("restore_all", batch, r.out) /\ com' = r.com
    /\ pc' = "idle"
    /\ batch' = <<>>
    /\ cur' = 0
    /\ UNCHANGED <<nextFile, held, before>>

\* Thread t, which is not inside a call, exits: its thread-locals are dropped.
ThreadExit(t) ==
    /\ last = NoCall
    /\ cur # t
    /\ com[t].state # "exited"
    /\ com' = Drop(com, t)
    /\ UNCHANGED <<fs, store, nextFile, nextId, held, pc, batch, before, last, cur>>

\* The caller takes the result of the call that returned; the next call
\* starts from here.
Forget ==
    /\ last # NoCall
    /\ last' = NoCall
    /\ before' = Snapshot(fs, store)
    /\ UNCHANGED <<fs, store, nextFile, nextId, held, pc, batch, com, cur>>

\* The arguments a caller that is between two calls can pass: paths, sequences
\* of paths, and sequences of the items it holds.
PathArgs == IF Idle THEN Paths ELSE {}
PathSeqArgs(max) ==
    IF Idle
    THEN {s \in InjSeqs(Paths, Cardinality(Paths)) :
             (\A i \in 1..Len(s) : fs[s[i]] # 0) => nextId + Len(s) <= max}
    ELSE {}
ItemSeqArgs == IF Idle THEN InjSeqs(held, Cardinality(held)) ELSE {}

\* One thread of the process uses the crate.
Next ==
    \/ \E p \in PathArgs : Remove(1, p, MaxRemoves)
    \/ \E paths \in PathSeqArgs(MaxRemoves) : RemoveAll(1, paths)
    \/ List(1)
    \/ \E items \in ItemSeqArgs : PurgeAll(1, items)
    \/ \E items \in ItemSeqArgs : RestoreAll(1, items)
    \/ RestorePerform
    \/ \E p \in Paths : CreateFile(p)
    \/ Forget

Spec == Init /\ [][Next]_vars

\* Every thread of the process uses the crate, and threads exit.
NextCom ==
    \/ \E t \in Threads : \E p \in PathArgs : Remove(t, p, MaxTrashed)
    \/ \E t \in Threads : \E paths \in PathSeqArgs(MaxTrashed) : RemoveAll(t, paths)
    \/ \E t \in Threads : List(t)
    \/ \E t \in Threads : \E items \in ItemSeqArgs : PurgeAll(t, items)
    \/ \E t \in Threads : \E items \in ItemSeqArgs : RestoreAll(t, items)
    \/ RestorePerform
    \/ \E t \in Threads : ThreadExit(t)
    \/ Forget

SpecCom == Init /\ [][NextCom]_vars

\* ------------------------------------------- TrashItem as a hash key
\* The fields of TrashItem are public: a caller can hold any value of the
\* type, not only those a list() returned.
TrashItemValues ==
    [id : 1..MaxRemoves, name : Names, original_parent : ParentPaths,
     time_deleted : 1..MaxRemoves]

Compared(op, a, b, value) == [op |-> op, arg |-> <<a, b>>, value |-> value]

InitEq ==
    /\ fs = [p \in Paths |-> PathNo(p)]
    /\ store = {}
    /\ nextFile = 0
    /\ nextId = 0
    /\ held \in {S \in SUBSET TrashItemValues : Cardinality(S) \in 1..2}
    /\ pc = "idle"
    /\ batch = <<>>
    /\ before = Snapshot([p \in Paths |-> PathNo(p)], {})
    /\ last = NoCall
    /\ com = [t \in Threads |-> NewThread]
    /\ cur = 0

\* a == b
TrashItemEq(a, b) ==
    /\ last' = Compared("eq", a, b, eq(a, b))
    /\ UNCHANGED <<fs, store, nextFile, nextId, held, pc, batch, before, com, cur>>

\* Both items are fed to hashers in the same state.
TrashItemHash(a, b) ==
    /\ last' = Compared("hash", a, b, <<hash(a, <<>>), hash(b, <<>>)>>)
    /\ UNCHANGED <<fs, store, nextFile, nextId, held, pc, batch, before, com, cur>>

NextEq ==
    \/ \E a, b \in held : TrashItemEq(a, b)
    \/ \E a, b \in held : TrashItemHash(a, b)

SpecEq == InitEq /\ [][NextEq]_vars

\* ------------------------------------------- windows_ticks_to_unix_seconds
\* const WINDOWS_TICK: u64 = 10000000
WINDOWS_TICK == 10000000

\* The numbers of this function do not fit the integers of the checker: a
\* number is written as <<top, mid, lo>> for
\* top * WINDOWS_TICK^2 + mid * WINDOWS_TICK + lo, with mid and lo in
\* 0..WINDOWS_TICK-1; top carries the sign.
Limbs == 0..(WINDOWS_TICK - 1)

\* const SEC_TO_UNIX_EPOCH: i64 = 11644473600
SEC_TO_UNIX_EPOCH == <<0, 1164, 4473600>>

\* 2^63 and 2^64: the first u64 that is no i64, and the size of u64.
TWO_63 == <<92233, 7203685, 4775808>>
TWO_64 == <<184467, 4407370, 9551616>>

Less(a, b) ==
    \/ a[1] < b[1]
    \/ a[1] = b[1] /\ a[2] < b[2]
    \/ a[1] = b[1] /\ a[2] = b[2] /\ a[3] < b[3]

Leq(a, b) == a = b \/ Less(a, b)

\* a + b and a - b, limb by limb with carry and borrow.
Plus(a, b) ==
    LET lo == a[3] + b[3]
        c1 == IF lo >= WINDOWS_TICK THEN 1 ELSE 0
        mid == a[2] + b[2] + c1
        c2 == IF mid >= WINDOWS_TICK THEN 1 ELSE 0
    IN  <<a[1] + b[1] + c2, mid - c2 * WINDOWS_TICK, lo - c1 * WINDOWS_TICK>>

Minus(a, b) ==
    LET lo == a[3] - b[3]
        b1 == IF lo < 0 THEN 1 ELSE 0
        mid == a[2] - b[2] - b1
        b2 == IF mid < 0 THEN 1 ELSE 0
    IN  <<a[1] - b[1] - b2, mid + b2 * WINDOWS_TICK, lo + b1 * WINDOWS_TICK>>

\* windows_ticks / WINDOWS_TICK on u64: the last limb is the remainder.
DivTick(u) == <<0, u[1], u[2]>>

\* x * WINDOWS_TICK, for x below WINDOWS_TICK^2.
TimesTick(x) == <<x[2], x[3], 0>>

\* `as i64` on a u64: the values from 2^63 on wrap to negative ones.
Wraps(u) == ~Less(u, TWO_63)
AsI64(u) == IF Wraps(u) THEN Minus(u, TWO_64) ELSE u

\* A conversion that takes the offset off the ticks, in u64, and divides
\* after that.
windows_ticks_to_unix_seconds_offset_first(windows_ticks) ==
    LET d == Minus(windows_ticks, TimesTick(SEC_TO_UNIX_EPOCH))
        u == IF d[1] < 0 THEN Plus(d, TWO_64) ELSE d
    IN  AsI64(DivTick(u))

\* (windows_ticks / WINDOWS_TICK) as i64 - SEC_TO_UNIX_EPOCH
windows_ticks_to_unix_seconds(windows_ticks) ==
    Minus(AsI64(DivTick(windows_ticks)), SEC_TO_UNIX_EPOCH)

\* The tick counts the conversion is applied to: around 0, around the Unix
\* epoch, around whole seconds, and up to the largest u64.
MaxSpread == 1

Around(n) == {x \in (n - MaxSpread)..(n + MaxSpread) : x \in Limbs}

TickSamples ==
    {t \in ({0, TWO_64[1]} \cup Around(SEC_TO_UNIX_EPOCH[2]))
            \X (Around(0) \cup Around(SEC_TO_UNIX_EPOCH[3]) \cup Around(TWO_64[2])
                \cup Around(WINDOWS_TICK - 1))
            \X (Around(0) \cup Around(TWO_64[3] - 1) \cup Around(WINDOWS_TICK - 1)) :
        Less(t, TWO_64)}

InitTicks ==
    /\ fs = [p \in Paths |-> PathNo(p)]
    /\ store = {}
    /\ nextFile = 0
    /\ nextId = 0
    /\ held = {}
    /\ pc = "idle"
    /\ batch \in TickSamples \X TickSamples
    /\ before = Snapshot([p \in Paths |-> PathNo(p)], {})
    /\ last = NoCall
    /\ com = [t \in Threads |-> NewThread]
    /\ cur = 0

\* The conversion of two tick counts.
TicksToUnix ==
    /\ last = NoCall
    /\ last' = Compared("windows_ticks_to_unix_seconds", batch[1], batch[2],
                        <<windows_ticks_to_unix_seconds(batch[1]),
                          windows_ticks_to_unix_seconds(batch[2])>>)
    /\ UNCHANGED <<fs, store, nextFile, nextId, held, pc, batch, before, com, cur>>

NextTicks == TicksToUnix

SpecTicks == InitTicks /\ [][NextTicks]_vars

\* ============================================================== claims
HasTwins(items) ==
    \E i, j \in 1..Len(items) : i # j /\ original_path(items[i]) = original_path(items[j])

WasTrashed(item) == item.id \in Ids(before.store)

\* The entries that were there when the call was entered.
AtEntry(p) == IF p \in before.ext THEN 0 ELSE before.fs[p]

ListedIds(items) == {items[i].id : i \in 1..Len(items)}

\* C1: a batch handed to restore_all in which two or more items have the same
\* original_path() never gets past the twin check: restore_all returns
\* RestoreTwins, whose path is an original path that two items of the batch
\* share and whose items are the batch as it was supplied.
C1_TwinsRejected ==
    /\ pc = "perform" => ~HasTwins(batch)
    /\ (last.op = "restore_all" /\ HasTwins(last.arg)) =>
          /\ last.kind = "RestoreTwins"
          /\ last.items = last.arg
          /\ \E i, j \in 1..Len(last.arg) :
                /\ i # j
                /\ original_path(last.arg[i]) = last.path
                /\ original_path(last.arg[j]) = last.path

C1_Witness ==
    /\ last.op = "restore_all" /\ last.kind = "RestoreTwins"
    /\ Len(last.arg) >= 2
    /\ last.arg[1].id # last.arg[2].id

\* C2: when restore_all returns RestoreTwins no native call has been issued,
\* and the store and the filesystem are as they were when it was called: the
\* items of the batch that were in the trash are still there and no
\* destination has been created.
C2_TwinsNoEffect ==
    (last.op = "restore_all" /\ last.kind = "RestoreTwins") =>
        /\ last.calls = <<>>
        /\ store = before.store
        /\ fs = before.fs
        /\ \A i \in 1..Len(last.arg) : WasTrashed(last.arg[i]) => last.arg[i].id \in Ids(store)

C2_Witness ==
    /\ last.op = "restore_all" /\ last.kind = "RestoreTwins"
    /\ \A i \in 1..Len(last.arg) : last.arg[i].id \in Ids(store)
    /\ fs[last.path] = 0

\* C3: when restore_all returns RestoreCollision, remaining_items is a
\* subsequence of the batch and its first element is the colliding item, the
\* one whose original_path() is the reported path.
C3_RemainingHeadedByCollider ==
    (last.op = "restore_all" /\ last.kind = "RestoreCollision") =>
        /\ Len(last.items) > 0
        /\ original_path(last.items[1]) = last.path
        /\ \E k \in 1..Len(last.arg) :
              last.items = SubSeq(last.arg, k, Len(last.arg))

C5_CollisionKeepsItem ==
    /\ pc = "perform" =>
          \A i \in 1..Len(batch) : AtEntry(original_path(batch[i])) = 0
    /\ (/\ last.op = "restore_all"
        /\ ~HasTwins(last.arg)
        /\ \E i \in 1..Len(last.arg) : AtEntry(original_path(last.arg[i])) # 0) =>
          /\ last.kind = "RestoreCollision"
          /\ \E i \in 1..Len(last.arg) : original_path(last.arg[i]) = last.path
          /\ before.fs[last.path] # 0
          /\ fs[last.path] = before.fs[last.path]
          /\ \A i \in 1..Len(last.arg) :
                WasTrashed(last.arg[i]) =>
                    \E it \in Range(Listing(store)) : eq(it, last.arg[i])

C5_Witness ==
    /\ last.op = "restore_all" /\ last.kind = "RestoreCollision"
    /\ Len(last.arg) = 1
    /\ WasTrashed(last.arg[1])
    /\ fs[original_path(last.arg[1])] # 0

\* C6: when restore_all returns RestoreCollision, every item of the batch
\* that was in the trash is either restored (its record has left the store
\* and its content is at its original path) or is still in the store and in
\* remaining_items, never both; remaining_items holds items of the batch only.
IsRestored(item) ==
    /\ item.id \notin Ids(store)
    /\ fs[original_path(item)] = RecOf(before.store, item.id).content

IsRemaining(item) == item.id \in Ids(store) /\ item \in Range(last.items)

C6_CollisionPartition ==
    (last.op = "restore_all" /\ last.kind = "RestoreCollision") =>
        /\ Range(last.items) \subseteq Range(last.arg)
        /\ \A i \in 1..Len(last.arg) :
              WasTrashed(last.arg[i]) =>
                 /\ IsRestored(last.arg[i]) \/ IsRemaining(last.arg[i])
                 /\ ~(IsRestored(last.arg[i]) /\ IsRemaining(last.arg[i]))

C6_Witness ==
    /\ last.op = "restore_all" /\ last.kind = "RestoreCollision"
    /\ Len(last.arg) = 2
    /\ \A i \in 1..2 : WasTrashed(last.arg[i])
    /\ original_path(last.arg[2]) = last.path

\* C7: after remove(f) succeeds there is no entry at f, and list() (its
\* native calls all succeeding) returns exactly one item that was not in the
\* trash before, whose name is the file
\* name of f and whose original_path() is f; it is the only item with that
\* original path when no record had it before.
C7_RemoveThenList ==
    (last.op = "remove" /\ last.kind = "Ok") =>
        LET f == last.arg[1]
            items == Listing(store)
            new == {i \in 1..Len(items) : items[i].id \notin Ids(before.store)}
            at == {i \in 1..Len(items) : original_path(items[i]) = f}
        IN  /\ before.fs[f] # 0
            /\ fs[f] = 0
            /\ Cardinality(new) = 1
            /\ \A i \in new : items[i].name = f[Len(f)] /\ original_path(items[i]) = f
            /\ (\A r \in before.store : Join(r.location, r.name) # f) => Cardinality(at) = 1

C7_Witness ==
    /\ last.op = "remove" /\ last.kind = "Ok"
    /\ before.store # {}
    /\ \A r \in before.store : Join(r.location, r.name) # last.arg[1]

\* C8: after purge_all succeeds, no list(), complete or cut short, returns
\* an item with the id of a purged item, and a list() whose native calls all
\* succeed returns every item whose record was in the store and not in the
\* batch.
C8_PurgeThenList ==
    (last.op = "purge_all" /\ last.kind = "Ok") =>
        /\ \A f \in 0..Len(ListPlan(store)), st \in {"valid", "invalid"} :
              LET out == list(fs, store, nextId, f, "E_FAIL", st)
              IN  ListedIds(out.res.items) \cap ListedIds(last.arg) = {}
        /\ \A r \in before.store :
              r.id \notin ListedIds(last.arg) => TrashItemOf(r) \in Range(Listing(store))

C8_Witness ==
    /\ last.op = "purge_all" /\ last.kind = "Ok"
    /\ Len(last.arg) = 1
    /\ store # {}

\* C9: after restore_all succeeds on items whose original paths were free,
\* the content of every item is at its original path again and no list()
\* returns the item.
C9_RemoveRestoreRoundTrip ==
    (last.op = "restore_all" /\ last.kind = "Ok") =>
        \A i \in 1..Len(last.arg) :
            /\ WasTrashed(last.arg[i])
            /\ before.fs[original_path(last.arg[i])] = 0 =>
                  fs[original_path(last.arg[i])] = RecOf(before.store, last.arg[i].id).content
            /\ \A f \in 0..Len(ListPlan(store)), st \in {"valid", "invalid"} :
                  last.arg[i].id \notin ListedIds(list(fs, store, nextId, f, "E_FAIL", st).res.items)

C9_Witness ==
    /\ last.op = "restore_all" /\ last.kind = "Ok"
    /\ Len(last.arg) = 1
    /\ before.ext = {}
    /\ fs[original_path(last.arg[1])] = PathNo(original_path(last.arg[1]))

\* C10: when list() returns, with a result or with an error, the store and
\* the filesystem are as they were when it was called.
C10_ListChangesNothing ==
    last.op = "list" => store = before.store /\ fs = before.fs

C10_Witness ==
    /\ last.op = "list" /\ last.kind = "PlatformApi" /\ last.fn = "GetDetailsEx"
    /\ store # {}

\* The results the next list() can return when it is called in this state.
NextListResults ==
    {list(fs, store, nextId, f, "E_FAIL", st).res :
        f \in 0..Len(ListPlan(store)), st \in {"valid", "invalid"}}

\* C11: when a list() has returned a result, a list() called next, with no
\* remove, purge_all or restore_all in between, that returns a result
\* returns items with the same set of ids.
C11_ListTwiceSameIds ==
    (last.op = "list" /\ last.kind = "Ok") =>
        \A res \in NextListResults :
            res.kind = "Ok" => ListedIds(res.items) = ListedIds(last.items)

\* C12: a list() that returns a result returns exactly one item for every
\* record that is in the store, whichever native call failed on the way.
C12_ListIsComplete ==
    (last.op = "list" /\ last.kind = "Ok") =>
        /\ Len(last.items) = Cardinality(store)
        /\ \A r \in store : \E i \in 1..Len(last.items) : last.items[i] = TrashItemOf(r)

\* C13: two TrashItems compare equal exactly when their ids are equal,
\* whatever their name, original_parent and time_deleted; the hash of an
\* item is made of its id alone, so items that compare equal hash alike.
C13_EqAndHashById ==
    /\ last.op = "eq" => (last.value <=> last.arg[1].id = last.arg[2].id)
    /\ last.op = "hash" =>
          /\ \A i \in 1..2 : last.value[i] = <<last.arg[i].id>>
          /\ eq(last.arg[1], last.arg[2]) => last.value[1] = last.value[2]

C13_Witness ==
    /\ last.op = "eq" /\ last.value
    /\ last.arg[1].name # last.arg[2].name
    /\ last.arg[1].time_deleted # last.arg[2].time_deleted

\* C14: in every operation a native call that does not succeed is the last
\* call of the operation, and the operation returns PlatformApi with the name
\* of that call and its status.
C14_FirstFailureIsReported ==
    \A i \in 1..Len(last.calls) :
        Failed(last.calls[i]) =>
            /\ i = Len(last.calls)
            /\ last.kind = "PlatformApi"
            /\ last.fn = last.calls[i].fn
            /\ last.code = "E_FAIL"

\* C15: when remove, remove_all, list, purge_all or restore_all has
\* returned, with a result or with an error, no handle or buffer that one of
\* its native calls handed out is still held.
C15_NothingHeldAtReturn ==
    last.op \in {"remove", "remove_all", "list", "purge_all", "restore_all"} =>
        HeldAtReturn(last.calls) = {}

\* C16: whatever the threads do and in whatever order, every thread
\* initializes its COM binding at most once and not before it issues native
\* calls, uninitializes it once, at its exit and not before, if it had
\* initialized it, and never issues a native call without a binding of its
\* own, that is, on the strength of another thread's.
C16_OneBindingPerThread ==
    \A t \in Threads :
        /\ com[t].inits <= 1
        /\ com[t].inits = 1 => com[t].used = "bound"
        /\ com[t].used # "naked"
        /\ com[t].state = "new" => com[t].inits = 0 /\ com[t].uninits = 0
        /\ com[t].state = "init" => com[t].inits = 1 /\ com[t].uninits = 0
        /\ com[t].state = "exited" => com[t].uninits = com[t].inits

C16_Witness ==
    \E t, u \in Threads :
        /\ com[t].state = "exited" /\ com[t].uninits = 1
        /\ com[u].state = "init" /\ com[u].used = "bound"
        /\ last.op = "list" /\ last.kind = "Ok"

\* C17: an operation is aborted by a panic only when CoInitializeEx has
\* failed, and when any other native call of the operation has failed the
\* operation returns an error.
C17_OnlyInitPanics ==
    /\ last.kind = "Panic" =>
          \E i \in 1..Len(last.calls) :
              last.calls[i].fn = "CoInitializeEx" /\ Failed(last.calls[i])
    /\ \A i \in 1..Len(last.calls) :
          (Failed(last.calls[i]) /\ last.calls[i].fn # "CoInitializeEx") =>
              last.kind \notin {"Ok", "Panic"}

\* C18: remove and remove_all on paths of which one has no entry return
\* CanonicalizePath with a path of the sequence that has no entry, the first
\* of them, and an io::Error of kind NotFound as source; no native call has
\* been issued, and the filesystem and the store are as they were.
C18_MissingPathFailsFirst ==
    (/\ last.op \in {"remove", "remove_all"}
     /\ \E i \in 1..Len(last.arg) : before.fs[last.arg[i]] = 0) =>
        /\ last.kind = "CanonicalizePath"
        /\ last.src = "NotFound"
        /\ \E i \in 1..Len(last.arg) :
              /\ last.path = last.arg[i]
              /\ before.fs[last.arg[i]] = 0
              /\ \A j \in 1..(i - 1) : before.fs[last.arg[j]] # 0
        /\ last.calls = <<>>
        /\ fs = before.fs
        /\ store = before.store

C18_Witness ==
    /\ last.op = "remove_all" /\ last.kind = "CanonicalizePath"
    /\ Len(last.arg) = 2
    /\ fs[last.arg[1]] # 0
    /\ last.path = last.arg[2]

\* C19: the items of one list() result have ids that differ from each
\* other, and the items of two records that are in the store at the same
\* time never compare equal.
C19_ListedIdsDistinct ==
    /\ (last.op = "list" /\ last.kind = "Ok") =>
          \A i, j \in 1..Len(last.items) : eq(last.items[i], last.items[j]) => i = j
    /\ \A r1, r2 \in store : eq(TrashItemOf(r1), TrashItemOf(r2)) => r1 = r2

C19_Witness ==
    /\ last.op = "list" /\ last.kind = "Ok"
    /\ Len(last.items) = 2
    /\ original_path(last.items[1]) = original_path(last.items[2])

\* The operations that change the store, the calls with which each of them
\* resolves one item of its batch, and the call that registers the item
\* with the IFileOperation.
MutatingOps == {"remove", "remove_all", "purge_all", "restore_all"}

ResolveCalls(op) ==
    CASE op = "purge_all" -> {"ParseDisplayName", "SHCreateItemWithParent"}
      [] op = "restore_all" ->
            {"ParseDisplayName", "SHCreateItemWithParent", "SHCreateItemFromParsingName"}
      [] OTHER -> {"SHCreateItemFromParsingName"}

RegisterCall(op) == IF op = "restore_all" THEN "MoveItem" ELSE "DeleteItem"

Performs(calls) == {i \in 1..Len(calls) : calls[i].fn = "PerformOperations"}

\* How many calls of fn have succeeded before call i.
Succeeded(calls, fn, i) ==
    Cardinality({j \in 1..(i - 1) : calls[j].fn = fn /\ calls[j].hr = "S_OK"})

\* C20: a mutating operation issues PerformOperations at most once, as its
\* last call and after each item of the batch has been resolved and
\* registered; when resolving or registering an item fails, the operation
\* returns an error, PerformOperations is not issued, and the filesystem and
\* the store are as they were.
C20_PerformOnceAfterAll ==
    last.op \in MutatingOps =>
        LET calls == last.calls
            per_item == ResolveCalls(last.op) \cup {RegisterCall(last.op)}
        IN  /\ Cardinality(Performs(calls)) <= 1
            /\ \A i \in Performs(calls) :
                  /\ i = Len(calls)
                  /\ \A fn \in per_item : Succeeded(calls, fn, i) = Len(last.arg)
            /\ (\E j \in 1..Len(calls) : calls[j].fn \in per_item /\ Failed(calls[j])) =>
                  /\ last.kind = "PlatformApi"
                  /\ Performs(calls) = {}
                  /\ fs = before.fs
                  /\ store = before.store

\* The second item of a batch could not be resolved or registered, the
\* first one was registered.
C20_Witness ==
    /\ last.op \in MutatingOps
    /\ Len(last.arg) = 2
    /\ Succeeded(last.calls, RegisterCall(last.op), Len(last.calls)) = 1
    /\ last.calls[Len(last.calls)].fn \in ResolveCalls(last.op) \cup {RegisterCall(last.op)}
    /\ Failed(last.calls[Len(last.calls)])

\* A destination of the batch had an entry when the call was entered.
Occupied(items) == \E i \in 1..Len(items) : AtEntry(original_path(items[i])) # 0

\* C21: restore_all checks for twins over the whole batch, then for occupied
\* destinations over the whole batch, and only then issues native calls: a
\* batch with twins and an occupied destination returns RestoreTwins, a
\* RestoreCollision is only returned for a batch without twins, both without
\* a native call, and native calls are only issued for a batch without twins
\* whose destinations were all free.
C21_TwinsThenCollisionThenNative ==
    last.op = "restore_all" =>
        /\ (HasTwins(last.arg) /\ Occupied(last.arg)) =>
              last.kind = "RestoreTwins" /\ last.calls = <<>>
        /\ last.kind = "RestoreCollision" => ~HasTwins(last.arg) /\ last.calls = <<>>
        /\ last.calls # <<>> => ~HasTwins(last.arg) /\ ~Occupied(last.arg)

C21_Witness ==
    /\ last.op = "restore_all"
    /\ HasTwins(last.arg)
    /\ Occupied(last.arg)
    /\ last.kind = "RestoreTwins"

C23_EmptyBatchIsNoOp ==
    (last.op \in {"purge_all", "restore_all"} /\ last.arg = <<>>) =>
        /\ Performs(last.calls) = {}
        /\ fs = before.fs
        /\ store = before.store
        /\ (\A j \in 1..Len(last.calls) : ~Failed(last.calls[j])) => last.kind = "Ok"

\* An empty batch went through the native part and returned Ok, with
\* records in the store.
C23_Witness ==
    /\ last.op \in {"purge_all", "restore_all"}
    /\ last.arg = <<>>
    /\ last.kind = "Ok"
    /\ \E j \in 1..Len(last.calls) : last.calls[j].fn = "SetOperationFlags"
    /\ store # {}

\* C24: remove_all called with no path does not issue PerformOperations and
\* leaves the filesystem and the store as they were; it returns Ok when
\* none of the calls it did issue has failed.
C24_EmptyRemoveAllIsNoOp ==
    (last.op = "remove_all" /\ last.arg = <<>>) =>
        /\ Performs(last.calls) = {}
        /\ fs = before.fs
        /\ store = before.store
        /\ (\A j \in 1..Len(last.calls) : ~Failed(last.calls[j])) => last.kind = "Ok"

\* C25: list() calls Next on the enumerator only after EnumObjects has
\* returned S_OK; when EnumObjects returns any other status, S_FALSE
\* included, it is the last call list() issues and list() returns
\* PlatformApi with function_name "EnumObjects" and that status.
C25_EnumeratorReadOnlyAfterOk ==
    last.op = "list" =>
        \A j \in 1..Len(last.calls) :
            /\ last.calls[j].fn = "Next" =>
                  \E i \in 1..(j - 1) :
                      last.calls[i].fn = "EnumObjects" /\ last.calls[i].hr = "S_OK"
            /\ (last.calls[j].fn = "EnumObjects" /\ last.calls[j].hr # "S_OK") =>
                  /\ j = Len(last.calls)
                  /\ last.kind = "PlatformApi"
                  /\ last.fn = "EnumObjects"
                  /\ last.code = last.calls[j].hr

\* EnumObjects returned the success status S_FALSE.
C25_Witness ==
    /\ last.op = "list"
    /\ last.calls[Len(last.calls)] = Issued("EnumObjects", "S_FALSE")
    /\ last.kind = "PlatformApi"
    /\ store # {}

\* The first item of the batch that was not in the trash when the call was
\* entered, 0 when there is none.
FirstStale(items) ==
    LET stale == {i \in 1..Len(items) : ~WasTrashed(items[i])}
    IN  IF stale = {} THEN 0 ELSE CHOOSE i \in stale : \A j \in stale : i <= j

\* The ParseDisplayName calls issued, whatever they returned.
Resolutions(calls) == {j \in 1..Len(calls) : calls[j].fn = "ParseDisplayName"}

\* C26 as stated: purge_all or restore_all with an item whose id does not
\* resolve changes nothing and returns the error of the id resolution,
\* unless another native call has failed.
C26_StaleIdFailsResolution ==
    (last.op \in {"purge_all", "restore_all"} /\ FirstStale(last.arg) # 0) =>
        /\ fs = before.fs
        /\ store = before.store
        /\ \/ last.kind = "PlatformApi" /\ last.fn = "ParseDisplayName"
           \/ \E j \in 1..Len(last.calls) :
                 Failed(last.calls[j]) /\ last.calls[j].fn # "ParseDisplayName"

\* C26, amended: purge_all or restore_all with an item whose id does not
\* resolve never returns Ok, never issues PerformOperations and changes
\* nothing.  restore_all returns RestoreTwins or RestoreCollision without a
\* native call when one of its checks fires, as it does for an item that
\* was restored and is still at its original path; otherwise the calls end
\* at the latest with the ParseDisplayName of that item, which fails and is
\* reported as PlatformApi.
C26_StaleIdChangesNothing ==
    (last.op \in {"purge_all", "restore_all"} /\ FirstStale(last.arg) # 0) =>
        /\ last.kind # "Ok"
        /\ Performs(last.calls) = {}
        /\ fs = before.fs
        /\ store = before.store
        /\ last.kind \in {"RestoreTwins", "RestoreCollision"} =>
              last.op = "restore_all" /\ last.calls = <<>>
        /\ Cardinality(Resolutions(last.calls)) <= FirstStale(last.arg)
        /\ Cardinality(Resolutions(last.calls)) = FirstStale(last.arg) =>
              /\ last.calls[Len(last.calls)] = Issued("ParseDisplayName", "E_FAIL")
              /\ last.kind = "PlatformApi"
              /\ last.fn = "ParseDisplayName"

\* The second item of a batch of two does not resolve, the first one does.
C26_Witness ==
    /\ last.op \in {"purge_all", "restore_all"}
    /\ Len(last.arg) = 2
    /\ FirstStale(last.arg) = 2
    /\ Cardinality(Resolutions(last.calls)) = 2
    /\ last.kind = "PlatformApi"
    /\ last.arg[1].id \in Ids(store)

\* C27: for every u64 tick count t, windows_ticks_to_unix_seconds(t) is
\* floor(t / WINDOWS_TICK) - SEC_TO_UNIX_EPOCH: with s the result plus
\* SEC_TO_UNIX_EPOCH, s is not negative and s * WINDOWS_TICK <= t <
\* (s + 1) * WINDOWS_TICK.  The conversion of the whole seconds to i64 does
\* not wrap, the result is negative exactly when t is before the Unix epoch,
\* and a tick count that is not smaller gives a result that is not smaller.
C27_TicksToUnixSeconds ==
    last.op = "windows_ticks_to_unix_seconds" =>
        /\ \A i \in 1..2 :
              LET t == last.arg[i]
                  r == last.value[i]
                  s == Plus(r, SEC_TO_UNIX_EPOCH)
              IN  /\ r[2] \in Limbs /\ r[3] \in Limbs
                  /\ s[1] = 0
                  /\ Leq(TimesTick(s), t)
                  /\ Less(t, Plus(TimesTick(s), <<0, 1, 0>>))
                  /\ ~Wraps(DivTick(t))
                  /\ r[1] < 0 <=> Less(t, TimesTick(SEC_TO_UNIX_EPOCH))
        /\ Leq(last.arg[1], last.arg[2]) => Leq(last.value[1], last.value[2])

\* A tick count before the Unix epoch that is not a whole second, and the
\* largest u64.
C27_Witness ==
    /\ last.op = "windows_ticks_to_unix_seconds"
    /\ Less(last.arg[1], TimesTick(SEC_TO_UNIX_EPOCH))
    /\ last.arg[1][3] # 0
    /\ last.value[1][1] < 0
    /\ last.arg[2] = Minus(TWO_64, <<0, 0, 1>>)
    /\ last.value[2][1] = 0
====
